---- MODULE Spec2Model ----
(***************************************************************************)
(* Change-batching, conflict-avoidance and commit-scheduling engine of the *)
(* git automation tools:                                                   *)
(*   - EnhancedGitAutomation / GitAutomationHandler                        *)
(*     (enhanced_git_automation.py), here program = "enhanced";            *)
(*   - AutoGitCommitHandler (auto_commit.py), here program = "basic";      *)
(*   - MergeConflictPrevention.handle_conflicts, run on its own under      *)
(*     SpecResolve.                                                        *)
(* Every qualifying filesystem event starts its own threading.Timer; the   *)
(* timer thread t then runs process_changes / commit_changes, and pc[t] is *)
(* its position in that function.  Time is a discrete clock in seconds.    *)
(***************************************************************************)
EXTENDS Integers, Sequences, FiniteSets, TLC

\* ---------------------------------------------------------------- bounds
\* number of filesystem events delivered in a session
MaxEvents == 2
\* clock horizon, seconds
MaxTime == 5

\* ------------------------------------------------------- program constants
\* scheduling.commit_delay / "commit_delay", seconds
CommitDelay == 5
\* monitoring.min_file_age, seconds
MinFileAge == 1
\* conflict_handling.max_retry_attempts
MaxRetryAttempts == 3
\* conflict_handling.retry_delay, seconds
RetryDelay == 2

\* ------------------------------------------------------------ glob filter
\* A path is a sequence of components, a component a sequence of characters
\* (what pathlib.Path(file_path).parts holds for a relative path).
\* config['monitoring']['ignore_patterns'], each pattern split into path components of characters
ignore_patterns ==
  << <<<<"*",".","p","y","c">>>>,
     <<<<"_","_","p","y","c","a","c","h","e","_","_">>, <<"*">>>>,
     <<<<".","g","i","t">>, <<"*">>>>,
     <<<<"*",".","l","o","g">>>>,
     <<<<".","D","S","_","S","t","o","r","e">>>>,
     <<<<"n","o","d","e","_","m","o","d","u","l","e","s">>, <<"*">>>>,
     <<<<".","v","e","n","v">>, <<"*">>>>,
     <<<<"v","e","n","v">>, <<"*">>>>,
     <<<<"*",".","t","m","p">>>>,
     <<<<"*",".","t","e","m","p">>>>,
     <<<<".","i","d","e","a">>, <<"*">>>>,
     <<<<".","v","s","c","o","d","e">>, <<"*">>>>,
     <<<<"e","n","h","a","n","c","e","d","_","g","i","t","_","*">>>>,
     <<<<"*",".","s","w","p">>>>,
     <<<<"*",".","s","w","o">>>>,
     <<<<".","e","n","v">>>>,
     <<<<".","e","n","v",".","*">>>>,
     <<<<"c","o","n","f","i","g",".","l","o","c","a","l",".","*">>>>,
     <<<<"*",".","d","b">>>>,
     <<<<"*",".","s","q","l","i","t","e">>>> >>

\* config["exclude_patterns"] of the basic handler
exclude_patterns ==
  << <<<<"*",".","p","y","c">>>>,
     <<<<"_","_","p","y","c","a","c","h","e","_","_">>, <<"*">>>>,
     <<<<".","g","i","t">>, <<"*">>>>,
     <<<<"*",".","l","o","g">>>>,
     <<<<".","D","S","_","S","t","o","r","e">>>>,
     <<<<"n","o","d","e","_","m","o","d","u","l","e","s">>, <<"*">>>>,
     <<<<".","v","e","n","v">>, <<"*">>>>,
     <<<<"v","e","n","v">>, <<"*">>>>,
     <<<<"*",".","t","m","p">>>>,
     <<<<"*",".","t","e","m","p">>>>,
     <<<<".","i","d","e","a">>, <<"*">>>>,
     <<<<".","v","s","c","o","d","e">>, <<"*">>>>,
     <<<<"a","u","t","o","_","c","o","m","m","i","t","_","*">>>>,
     <<<<"*",".","s","w","p">>>>,
     <<<<"*",".","s","w","o">>>> >>

\* config["include_patterns"] of the basic handler
include_patterns ==
  << <<<<"*",".","p","y">>>>,
     <<<<"*",".","j","s">>>>,
     <<<<"*",".","h","t","m","l">>>>,
     <<<<"*",".","c","s","s">>>>,
     <<<<"*",".","m","d">>>>,
     <<<<"*",".","t","x","t">>>>,
     <<<<"*",".","j","s","o","n">>>>,
     <<<<"*",".","y","m","l">>>>,
     <<<<"*",".","y","a","m","l">>>>,
     <<<<"*",".","x","m","l">>>>,
     <<<<"*",".","s","q","l">>>>,
     <<<<"*",".","s","h">>>> >>

P_a_py == <<<<"a",".","p","y">>>>
P_git_config == <<<<".","g","i","t">>, <<"c","o","n","f","i","g">>>>
P_t_pyc == <<<<"t",".","p","y","c">>>>
P_c_bin == <<<<"c",".","b","i","n">>>>

\* fnmatch of one component: "*" matches any run of characters, "?" one
RECURSIVE FnMatch(_, _)
FnMatch(pat, s) ==
  IF pat = <<>> THEN s = <<>>
  ELSE IF Head(pat) = "*"
       THEN FnMatch(Tail(pat), s) \/ (s # <<>> /\ FnMatch(pat, Tail(s)))
       ELSE /\ s # <<>>
            /\ (Head(pat) = "?" \/ Head(pat) = Head(s))
            /\ FnMatch(Tail(pat), Tail(s))

\* PurePath.match with a relative pattern: the pattern's components are
\* matched against the LAST components of the path
PathMatch(path, pattern) ==
  /\ Len(pattern) > 0
  /\ Len(pattern) <= Len(path)
  /\ \A i \in 1..Len(pattern) :
        FnMatch(pattern[i], path[Len(path) - Len(pattern) + i])

MatchesAny(path, patterns) ==
  \E i \in 1..Len(patterns) : PathMatch(path, patterns[i])

\* EnhancedGitAutomation.should_process_file: exists/age are what
\* file_path.exists() and time.time() - st_mtime give at delivery time
should_process_file(path, exists, age) ==
  IF exists /\ age < MinFileAge THEN FALSE
  ELSE ~ MatchesAny(path, ignore_patterns)

\* a filter that looks at the include list first
IncludeFileIncludeFirst(path, excludes, includes) ==
  IF includes # <<>> /\ MatchesAny(path, includes) THEN TRUE
  ELSE IF MatchesAny(path, excludes) THEN FALSE
  ELSE includes = <<>>

\* the body of should_include_file for given exclude and include lists
IncludeFile(path, excludes, includes) ==
  IF MatchesAny(path, excludes) THEN FALSE
  ELSE IF includes # <<>> THEN MatchesAny(path, includes)
  ELSE TRUE

\* AutoGitCommitHandler.should_include_file
should_include_file(path) == IncludeFile(path, exclude_patterns, include_patterns)

\* str(path): the components joined by "/", the form in which git status
\* prints a path of the working tree
RECURSIVE PathString(_)
PathString(path) ==
  IF path = <<>> THEN <<>>
  ELSE IF Len(path) = 1 THEN path[1]
  ELSE path[1] \o << "/" >> \o PathString(Tail(path))

\* paths the watcher reports in the model
Paths == {P_a_py, P_git_config, P_t_pyc, P_c_bin}
\* watchdog event types
EventTypes == {"modified"}
\* file ages at delivery time, seconds
FileAges == {0, MinFileAge}

\* ------------------------------------------------------ git status text
\* lines of `git status --porcelain` output, as characters: XY, a blank, the path
\* " M a.py"
L_M_a_py == <<" ","M"," ","a",".","p","y">>
\* " D a.py"
L_xD_a_py == <<" ","D"," ","a",".","p","y">>
\* "?? b.md"
L_new_b_md == <<"?","?"," ","b",".","m","d">>

\* outputs of the status query the model draws from
StatusOutputs ==
  { <<>>, <<L_M_a_py>>, <<L_new_b_md, L_xD_a_py>> }

\* result.stdout.strip(): the text loses its leading whitespace, that is the
\* blanks that start its first line (and the final newline)
RECURSIVE LStrip(_)
LStrip(s) == IF s # <<>> /\ Head(s) = " " THEN LStrip(Tail(s)) ELSE s

StripOutput(out) ==
  IF out = <<>> THEN <<>>
  ELSE <<LStrip(out[1])>> \o SubSeq(out, 2, Len(out))

\* the non-empty lines of stdout.strip().split('\n')
StatusLines(out) == SelectSeq(StripOutput(out), LAMBDA l : l # <<>>)

\* line[:2]
StatusCode(line) == SubSeq(line, 1, IF Len(line) < 2 THEN Len(line) ELSE 2)
\* line[3:]
FilePath(line) == SubSeq(line, 4, Len(line))

\* classification of one status code in EnhancedGitAutomation.get_git_status
ChangeType(status_code) ==
  IF status_code # <<>> /\ (status_code[1] = "A" \/ status_code = <<"?","?">>)
    THEN "added"
  ELSE IF status_code # <<>> /\ status_code[1] = "D" THEN "deleted"
  ELSE IF status_code # <<>> /\ status_code[1] = "R" THEN "renamed"
  ELSE IF status_code # <<>> /\ status_code[1] = "C" THEN "copied"
  ELSE "modified"

ParseChanges(out) ==
  [ i \in 1..Len(StatusLines(out)) |->
      [ file |-> FilePath(StatusLines(out)[i]),
        type |-> ChangeType(StatusCode(StatusLines(out)[i])),
        status_code |-> StatusCode(StatusLines(out)[i]) ] ]

\* branch names `git branch --show-current` prints ("" on a detached HEAD)
Branches == {"main", "feature", ""}

\* what the git commands of get_git_status return: a failing command ends
\* the query, so the results of the later ones are not drawn
GitStatusInputs ==
  { [ repo_ok |-> FALSE, branch_ok |-> FALSE, branch |-> "", status_ok |-> FALSE, out |-> <<>> ],
    [ repo_ok |-> TRUE, branch_ok |-> FALSE, branch |-> "", status_ok |-> FALSE, out |-> <<>> ] }
  \cup [ repo_ok : {TRUE}, branch_ok : {TRUE}, branch : Branches,
         status_ok : {TRUE}, out : StatusOutputs ]
  \cup [ repo_ok : {TRUE}, branch_ok : {FALSE}, branch : {""},
         status_ok : {TRUE}, out : StatusOutputs ]

None == [ none |-> TRUE ]

\* EnhancedGitAutomation.get_git_status: (git_info, None) or (None, error)
get_git_status(in) ==
  IF ~ in.repo_ok THEN [ error |-> "not_a_repository", info |-> None ]
  ELSE IF ~ in.status_ok THEN [ error |-> "status_failed", info |-> None ]
  ELSE [ error |-> "",
         info |-> [ current_branch |-> IF in.branch_ok THEN in.branch ELSE "unknown",
                    changes |-> ParseChanges(in.out),
                    has_changes |-> Len(ParseChanges(in.out)) > 0,
                    total_changes |-> Len(ParseChanges(in.out)) ] ]

\* AutoGitCommitHandler.get_git_status; current_branch None is written "None"
basic_get_git_status(in) ==
  IF ~ in.status_ok THEN [ error |-> "git_failed", info |-> None ]
  ELSE [ error |-> "",
         info |-> [ changed_files |->
                      [ i \in 1..Len(StatusLines(in.out)) |-> FilePath(StatusLines(in.out)[i]) ],
                    current_branch |-> IF in.branch_ok THEN in.branch ELSE "None",
                    has_changes |-> \E i \in 1..Len(in.out) : LStrip(in.out[i]) # <<>> ] ]

\* ------------------------------------------------------- conflict check
\* what the git commands of check_for_conflicts return
AllFail ==
  [ raises |-> FALSE, fetch_ok |-> FALSE, unpushed_ok |-> FALSE, unpushed_out |-> FALSE,
    merge_base_ok |-> FALSE, merge_tree_ok |-> FALSE, markers |-> FALSE ]

\* one input for every way through check_for_conflicts
ConflictInputs ==
  { [ AllFail EXCEPT !.raises = TRUE ],
    AllFail,
    [ AllFail EXCEPT !.fetch_ok = TRUE, !.unpushed_ok = TRUE, !.unpushed_out = TRUE ],
    [ AllFail EXCEPT !.fetch_ok = TRUE, !.unpushed_ok = TRUE ],
    [ AllFail EXCEPT !.fetch_ok = TRUE, !.unpushed_out = TRUE, !.merge_base_ok = TRUE ],
    [ AllFail EXCEPT !.fetch_ok = TRUE, !.merge_base_ok = TRUE, !.merge_tree_ok = TRUE ],
    [ AllFail EXCEPT !.fetch_ok = TRUE, !.merge_base_ok = TRUE, !.merge_tree_ok = TRUE,
                     !.markers = TRUE ] }

\* MergeConflictPrevention.check_for_conflicts: the pair (first, reason)
check_for_conflicts(in) ==
  IF in.raises THEN [ first |-> FALSE, reason |-> "check_exception" ]
  ELSE IF ~ in.fetch_ok THEN [ first |-> FALSE, reason |-> "fetch_failed" ]
  ELSE IF in.unpushed_ok /\ in.unpushed_out
    THEN [ first |-> TRUE, reason |-> "unpushed_commits" ]
  ELSE IF ~ in.merge_base_ok THEN [ first |-> FALSE, reason |-> "no_merge_base" ]
  ELSE IF in.merge_tree_ok
    THEN IF in.markers THEN [ first |-> TRUE, reason |-> "potential_conflict" ]
                       ELSE [ first |-> FALSE, reason |-> "no_conflict" ]
  ELSE [ first |-> FALSE, reason |-> "cannot_check" ]

\* ------------------------------------------------------------------ state
VARIABLES
  program,             \* "enhanced" | "basic": which handler the session runs
  config,              \* the settings the flush reads
  now,                 \* the clock, seconds
  timer,               \* timer[t]: the threading.Timer started by event t
  pc,                  \* pc[t]: position of timer thread t in its callback
  pending_changes,     \* EnhancedGitAutomation.pending_changes
  processing_changes,  \* EnhancedGitAutomation.processing_changes
  last_commit_time,    \* EnhancedGitAutomation.last_commit_time
  commit_lock,         \* AutoGitCommitHandler.commit_lock: 0 or its holder
  git_status,          \* git_status[t]: local of the flush of thread t
  verdict,             \* verdict[t]: what check_for_conflicts returned to t
  cmds,                \* cmds[t]: add/commit/push commands run by the flush of t
  outcome,             \* outcome[t]: how the running callback of t is about to end
  startLen,            \* history: Len(pending_changes) when the flush of t began
  busyAtExpiry,        \* history: a flush was executing when timer t expired
  lastFlushOutcome,    \* history: how the flush that finished last ended
  bursts,              \* history: number of bursts of qualifying events so far
  r_pc,                \* handle_conflicts: position ("idle" when it is not run)
  r_max,               \* handle_conflicts: max_retries after the default is applied
  r_attempt,           \* handle_conflicts: the loop variable attempt
  r_pull,              \* handle_conflicts: how the pull of this attempt ended
  r_result,            \* handle_conflicts: the pair returned, None before
  r_clock,             \* the clock of the handle_conflicts run, seconds
  r_starts,            \* history: the times at which the attempts began
  r_hist,              \* history: what the checks and pulls of the run reported
  msg_input,           \* message generator: arguments and settings of the calls
  msg_clock,           \* message generator: the clock, seconds
  msg_calls,           \* history: the calls made, with what each returned
  stopped,             \* start_monitoring: observer.stop() has been called
  flt_input,           \* file filter: the event it is asked about
  flt_result,          \* file filter: what it answered, None before
  gs_input,            \* status query: what the git commands return
  gs_result            \* status query: what the flush made of it, None before

resolver == << r_pc, r_max, r_attempt, r_pull, r_result, r_clock, r_starts, r_hist >>
messenger == << msg_input, msg_clock, msg_calls >>
filterer == << flt_input, flt_result >>
parser == << gs_input, gs_result >>
session == << program, config, resolver, messenger, stopped, filterer, parser >>
locals  == << git_status, verdict, cmds, outcome, startLen, busyAtExpiry >>
history == << lastFlushOutcome, bursts >>

vars == << program, config, now, timer, pc, pending_changes, processing_changes,
           last_commit_time, commit_lock, git_status, verdict, cmds, outcome,
           startLen, busyAtExpiry, lastFlushOutcome, bursts,
           r_pc, r_max, r_attempt, r_pull, r_result, r_clock, r_starts, r_hist,
           msg_input, msg_clock, msg_calls,
           stopped, flt_input, flt_result, gs_input, gs_result >>

Threads == 1..MaxEvents

\* positions between the status query and the release of the flag / lock
FlushSection == {"status", "conflict", "add", "commit", "push", "clear", "finally"}

InFlush == { t \in Threads : pc[t] \in FlushSection }

\* callbacks invoked so far: one per expired timer
Attempts == Cardinality({ t \in Threads : timer[t].st = "fired" })

\* next unused timer
NextTimer == Cardinality({ t \in Threads : timer[t].st # "unused" }) + 1

NoVerdict == [ first |-> FALSE, reason |-> "none" ]

\* values of scheduling.max_commits_per_hour: a user setting of 1 and the
\* default; scheduling.enable_rate_limiting is left at its default, True. No
\* code reads either setting, so they are not part of the state of a flush
RateLimits == {1, 60}

\* allowed_branches of the basic handler
allowed_branches == {"main", "master", "develop"}

NoHist == [ conflict_every_check |-> TRUE, pull_failed_every_time |-> TRUE,
            textual_conflict |-> FALSE, merge_commit |-> FALSE,
            last_check |-> "none" ]

\* the scheduler before the first event
InitScheduler ==
  /\ now = 0
  /\ timer = [ t \in Threads |-> [ st |-> "unused", deadline |-> 0 ] ]
  /\ pc = [ t \in Threads |-> "idle" ]
  /\ pending_changes = <<>>
  /\ processing_changes = FALSE
  /\ last_commit_time = 0
  /\ commit_lock = 0
  /\ git_status = [ t \in Threads |-> None ]
  /\ verdict = [ t \in Threads |-> NoVerdict ]
  /\ cmds = [ t \in Threads |-> <<>> ]
  /\ outcome = [ t \in Threads |-> "none" ]
  /\ startLen = [ t \in Threads |-> 0 ]
  /\ busyAtExpiry = [ t \in Threads |-> FALSE ]
  /\ lastFlushOutcome = "none"
  /\ bursts = 0

\* handle_conflicts is not running
InitResolverIdle ==
  /\ r_pc = "idle"
  /\ r_max = 0
  /\ r_attempt = 0
  /\ r_pull = "none"
  /\ r_result = None
  /\ r_clock = 0
  /\ r_starts = <<>>
  /\ r_hist = NoHist

\* the message generator is not run
InitMessageIdle ==
  /\ msg_input = None
  /\ msg_clock = 0
  /\ msg_calls = <<>>

\* the observer is running
InitMonitoring == stopped = FALSE

\* the file filter is not run on its own
InitFilterIdle ==
  /\ flt_input = None
  /\ flt_result = None

\* the status query is not run on its own
InitStatusIdle ==
  /\ gs_input = None
  /\ gs_result = None

Init ==
  /\ program \in {"enhanced", "basic"}
  /\ config \in [ conflict_enabled : BOOLEAN, auto_push : BOOLEAN,
                  enable_branch_check : BOOLEAN ]
  /\ program = "enhanced" => config.enable_branch_check
  /\ program = "basic" => config.conflict_enabled /\ config.auto_push
  /\ InitScheduler
  /\ InitResolverIdle
  /\ InitMessageIdle
  /\ InitMonitoring
  /\ InitFilterIdle
  /\ InitStatusIdle

\* the previous qualifying event is less than the delay old: its timer is
\* armed and its deadline, the time of the event plus the delay, is ahead
InBurst == \E t \in Threads : timer[t].st = "armed" /\ timer[t].deadline > now

\* threading.Timer(commit_delay, callback).start(), and the history of bursts:
\* an event opens a new burst unless it comes less than the delay after the
\* previous qualifying event
StartTimer ==
  /\ timer' = [ timer EXCEPT ![NextTimer] = [ st |-> "armed", deadline |-> now + CommitDelay ] ]
  /\ bursts' = IF InBurst THEN bursts ELSE bursts + 1

\* timer t has expired: its thread runs the callback
Expired(t) == timer[t].st = "armed" /\ timer[t].deadline <= now

Fire(t) == timer' = [ timer EXCEPT ![t] = [ st |-> "fired", deadline |-> 0 ] ]

\* the callback returns ("skipped": at the head test, because a flush was in
\* progress; "done" otherwise): its locals go away
Return(t, where) ==
  /\ pc' = [ pc EXCEPT ![t] = where ]
  /\ git_status' = [ git_status EXCEPT ![t] = None ]
  /\ verdict' = [ verdict EXCEPT ![t] = NoVerdict ]
  /\ cmds' = [ cmds EXCEPT ![t] = <<>> ]
  /\ outcome' = [ outcome EXCEPT ![t] = "none" ]
  /\ startLen' = [ startLen EXCEPT ![t] = 0 ]
  /\ busyAtExpiry' = [ busyAtExpiry EXCEPT ![t] = FALSE ]

\* a return statement (or the except clause) inside the guarded block: control
\* goes to the release of the flag / lock
Leave(t, how) ==
  /\ pc' = [ pc EXCEPT ![t] = "finally" ]
  /\ outcome' = [ outcome EXCEPT ![t] = how ]
  /\ git_status' = [ git_status EXCEPT ![t] = None ]

\* how a flush ended, for the history: a commit was made, an exception was
\* caught (before, or after git commit had succeeded), or the flush was given up
FlushEnd(how) ==
  IF how \in {"committed", "committed_push_failed"} THEN "committed"
  ELSE IF how = "exception" THEN "raised"
  ELSE IF how = "exception_after_commit" THEN "committed_raised"
  ELSE "abandoned"

\* results of one git command: exit status 0, non-zero, or subprocess.run raises
RunResults == {"ok", "failed", "raised"}

\* ------------------------------------------------- enhanced: the handler
\* GitAutomationHandler.on_any_event
OnAnyEvent ==
  /\ program = "enhanced" /\ ~ stopped
  /\ NextTimer <= MaxEvents
  /\ \E is_directory \in BOOLEAN, path \in Paths, event_type \in EventTypes,
        exists \in BOOLEAN, age \in FileAges :
       IF is_directory \/ ~ should_process_file(path, exists, age)
       THEN UNCHANGED vars
       ELSE /\ pending_changes' = Append(pending_changes,
                 [ event_type |-> event_type, file_path |-> path, timestamp |-> now ])
            /\ StartTimer
            /\ UNCHANGED << session, now, pc, processing_changes, last_commit_time,
                            commit_lock, locals, lastFlushOutcome >>

\* the head test without the flag: only the pending list is looked at
MayEnterIgnoringFlag == pending_changes # <<>>

\* the test at the head of process_changes, made under change_lock
MayEnter == ~ (processing_changes \/ pending_changes = <<>>)

\* timer t expires and its thread calls process_changes: the locked test
ProcessChanges(t) ==
  /\ program = "enhanced"
  /\ Expired(t)
  /\ Fire(t)
  /\ IF MayEnter
     THEN /\ processing_changes' = TRUE
          /\ pc' = [ pc EXCEPT ![t] = "status" ]
          /\ startLen' = [ startLen EXCEPT ![t] = Len(pending_changes) ]
          /\ busyAtExpiry' = [ busyAtExpiry EXCEPT ![t] = InFlush # {} ]
          /\ UNCHANGED << git_status, verdict, cmds, outcome >>
     ELSE /\ Return(t, IF processing_changes THEN "skipped" ELSE "done")
          /\ UNCHANGED processing_changes
  /\ UNCHANGED << session, now, pending_changes, last_commit_time, commit_lock, history >>

\* lines 528-554: the status query, the early returns, the change type
ProcessStatus(t) ==
  /\ program = "enhanced" /\ pc[t] = "status"
  /\ \E in \in GitStatusInputs :
       LET r == get_git_status(in) IN
       IF r.error # ""
       THEN /\ Leave(t, "status_error")
            /\ UNCHANGED pending_changes
       ELSE IF ~ r.info.has_changes
       THEN /\ pending_changes' = <<>>
            /\ Leave(t, "no_changes")
       ELSE /\ git_status' = [ git_status EXCEPT ![t] = r.info ]
            /\ pc' = [ pc EXCEPT ![t] = "conflict" ]
            /\ UNCHANGED << pending_changes, outcome >>
  /\ UNCHANGED << session, now, timer, processing_changes, last_commit_time,
                  commit_lock, verdict, cmds, startLen, busyAtExpiry, history >>

\* lines 556-561: `success, message = check_for_conflicts()`
ProcessConflictCheck(t) ==
  /\ program = "enhanced" /\ pc[t] = "conflict"
  /\ IF config.conflict_enabled
     THEN \E in \in ConflictInputs :
            LET success == check_for_conflicts(in).first IN
            /\ verdict' = [ verdict EXCEPT ![t] = check_for_conflicts(in) ]
            /\ IF ~ success
               THEN Leave(t, "conflict_abort")
               ELSE /\ pc' = [ pc EXCEPT ![t] = "add" ]
                    /\ UNCHANGED << outcome, git_status >>
     ELSE /\ pc' = [ pc EXCEPT ![t] = "add" ]
          /\ UNCHANGED << verdict, outcome, git_status >>
  /\ UNCHANGED << session, now, timer, pending_changes, processing_changes,
                  last_commit_time, commit_lock, cmds, startLen,
                  busyAtExpiry, history >>

\* a flush that goes on to git commit whatever git add returned
ProcessAddIgnoringFailure(t) ==
  /\ program = "enhanced" /\ pc[t] = "add"
  /\ cmds' = [ cmds EXCEPT ![t] = Append(@, "add") ]
  /\ \E r \in RunResults :
       CASE r = "ok" -> pc' = [ pc EXCEPT ![t] = "commit" ] /\ UNCHANGED << outcome, git_status >>
         [] r = "failed" -> /\ pc' = [ pc EXCEPT ![t] = "commit" ]
                            /\ outcome' = [ outcome EXCEPT ![t] = "add_failed" ]
                            /\ UNCHANGED git_status
         [] r = "raised" -> Leave(t, "exception")
  /\ UNCHANGED << session, now, timer, pending_changes, processing_changes,
                  last_commit_time, commit_lock, verdict, startLen,
                  busyAtExpiry, history >>

\* lines 568-578: git add .
ProcessAdd(t) ==
  /\ program = "enhanced" /\ pc[t] = "add"
  /\ cmds' = [ cmds EXCEPT ![t] = Append(@, "add") ]
  /\ \E r \in RunResults :
       CASE r = "ok" -> pc' = [ pc EXCEPT ![t] = "commit" ] /\ UNCHANGED << outcome, git_status >>
         [] r = "failed" -> Leave(t, "add_failed")
         [] r = "raised" -> Leave(t, "exception")
  /\ UNCHANGED << session, now, timer, pending_changes, processing_changes,
                  last_commit_time, commit_lock, verdict, startLen,
                  busyAtExpiry, history >>

\* lines 580-592: git commit -m message
ProcessCommit(t) ==
  /\ program = "enhanced" /\ pc[t] = "commit"
  /\ cmds' = [ cmds EXCEPT ![t] = Append(@, "commit") ]
  /\ \E r \in RunResults :
       CASE r = "ok" -> pc' = [ pc EXCEPT ![t] = "push" ] /\ UNCHANGED << outcome, git_status >>
         [] r = "failed" -> Leave(t, "commit_failed")
         [] r = "raised" -> Leave(t, "exception")
  /\ UNCHANGED << session, now, timer, pending_changes, processing_changes,
                  last_commit_time, commit_lock, verdict, startLen,
                  busyAtExpiry, history >>

\* lines 594-606: git push origin branch, when auto_push is set
ProcessPush(t) ==
  /\ program = "enhanced" /\ pc[t] = "push"
  /\ IF config.auto_push
     THEN /\ cmds' = [ cmds EXCEPT ![t] = Append(@, "push") ]
          /\ \E r \in RunResults :
               IF r = "raised" THEN Leave(t, "exception_after_commit")
               ELSE /\ pc' = [ pc EXCEPT ![t] = "clear" ]
                    /\ outcome' = [ outcome EXCEPT ![t] =
                                      IF r = "ok" THEN "pushed" ELSE "push_failed" ]
                    /\ UNCHANGED git_status
     ELSE /\ pc' = [ pc EXCEPT ![t] = "clear" ]
          /\ UNCHANGED << cmds, outcome, git_status >>
  /\ UNCHANGED << session, now, timer, pending_changes, processing_changes,
                  last_commit_time, commit_lock, verdict, startLen,
                  busyAtExpiry, history >>

\* a flush that treats a failed push as a failed flush: the pending changes
\* are kept for the next attempt
ProcessClearUnlessPushFailed(t) ==
  /\ program = "enhanced" /\ pc[t] = "clear"
  /\ pending_changes' = IF outcome[t] = "push_failed" THEN pending_changes ELSE <<>>
  /\ last_commit_time' = now
  /\ Leave(t, IF outcome[t] = "push_failed" THEN "committed_push_failed" ELSE "committed")
  /\ UNCHANGED << session, now, timer, processing_changes, commit_lock,
                  verdict, cmds, startLen, busyAtExpiry, history >>

\* lines 608-610: pending_changes.clear(); last_commit_time = time.time(); return True
ProcessClear(t) ==
  /\ program = "enhanced" /\ pc[t] = "clear"
  /\ pending_changes' = <<>>
  /\ last_commit_time' = now
  /\ Leave(t, IF outcome[t] = "push_failed" THEN "committed_push_failed" ELSE "committed")
  /\ UNCHANGED << session, now, timer, processing_changes, commit_lock,
                  verdict, cmds, startLen, busyAtExpiry, history >>

\* the flag reset placed next to `return True` instead of in a finally clause
ProcessFinallyOnSuccessOnly(t) ==
  /\ program = "enhanced" /\ pc[t] = "finally"
  /\ processing_changes' = (FlushEnd(outcome[t]) # "committed")
  /\ lastFlushOutcome' = FlushEnd(outcome[t])
  /\ Return(t, "done")
  /\ UNCHANGED << session, now, timer, pending_changes, last_commit_time,
                  commit_lock, bursts >>

\* lines 615-616: finally: self.processing_changes = False
ProcessFinally(t) ==
  /\ program = "enhanced" /\ pc[t] = "finally"
  /\ processing_changes' = FALSE
  /\ lastFlushOutcome' = FlushEnd(outcome[t])
  /\ Return(t, "done")
  /\ UNCHANGED << session, now, timer, pending_changes, last_commit_time,
                  commit_lock, bursts >>

\* --------------------------------------------------- basic: the handler
\* AutoGitCommitHandler.on_any_event
BasicOnAnyEvent ==
  /\ program = "basic" /\ ~ stopped
  /\ NextTimer <= MaxEvents
  /\ \E is_directory \in BOOLEAN, path \in Paths :
       IF is_directory \/ ~ should_include_file(path)
       THEN UNCHANGED vars
       ELSE /\ StartTimer
            /\ UNCHANGED << session, now, pc, pending_changes, processing_changes,
                            last_commit_time, commit_lock, locals, lastFlushOutcome >>

\* `with self.commit_lock:` the lock is taken by t when it is free
AcquireCommitLock(t) ==
  /\ commit_lock = 0
  /\ commit_lock' = t
  /\ pc' = [ pc EXCEPT ![t] = "status" ]

\* timer t expires and its thread calls commit_changes: it takes the lock or
\* blocks on it
CommitChanges(t) ==
  /\ program = "basic"
  /\ Expired(t)
  /\ Fire(t)
  /\ busyAtExpiry' = [ busyAtExpiry EXCEPT ![t] = InFlush # {} ]
  /\ IF commit_lock = 0
     THEN AcquireCommitLock(t)
     ELSE /\ pc' = [ pc EXCEPT ![t] = "blocked" ]
          /\ UNCHANGED commit_lock
  /\ UNCHANGED << session, now, pending_changes, processing_changes,
                  last_commit_time, git_status, verdict, cmds, outcome, startLen, history >>

\* a thread blocked in `with self.commit_lock:` gets the lock once it is free
CommitChangesUnblock(t) ==
  /\ program = "basic" /\ pc[t] = "blocked"
  /\ AcquireCommitLock(t)
  /\ UNCHANGED << session, now, timer, pending_changes, processing_changes,
                  last_commit_time, locals, history >>

\* the branch test of commit_changes: branch check enabled, a non-empty branch
\* name, and the name is not in allowed_branches
BranchRejected(info) ==
  /\ config.enable_branch_check
  /\ info.current_branch # "None" /\ info.current_branch # ""
  /\ info.current_branch \notin allowed_branches

\* lines 152-185: status query, early returns, branch check, message
CommitStatus(t) ==
  /\ program = "basic" /\ pc[t] = "status"
  /\ \E in \in GitStatusInputs :
       LET r == basic_get_git_status(in) IN
       IF r.error # "" THEN Leave(t, "status_error")
       ELSE IF ~ r.info.has_changes THEN Leave(t, "no_changes")
       ELSE IF BranchRejected(r.info) THEN Leave(t, "branch_rejected")
       ELSE IF Len(r.info.changed_files) = 0 THEN Leave(t, "no_changes")
       ELSE /\ git_status' = [ git_status EXCEPT ![t] = r.info ]
            /\ pc' = [ pc EXCEPT ![t] = "add" ]
            /\ UNCHANGED outcome
  /\ UNCHANGED << session, now, timer, pending_changes, processing_changes,
                  last_commit_time, commit_lock, verdict, cmds, startLen, busyAtExpiry, history >>

\* lines 188-198: git add .
CommitAdd(t) ==
  /\ program = "basic" /\ pc[t] = "add"
  /\ cmds' = [ cmds EXCEPT ![t] = Append(@, "add") ]
  /\ \E r \in RunResults :
       CASE r = "ok" -> pc' = [ pc EXCEPT ![t] = "commit" ] /\ UNCHANGED << outcome, git_status >>
         [] r = "failed" -> Leave(t, "add_failed")
         [] r = "raised" -> Leave(t, "exception")
  /\ UNCHANGED << session, now, timer, pending_changes, processing_changes,
                  last_commit_time, commit_lock, verdict, startLen,
                  busyAtExpiry, history >>

\* lines 200-210: git commit -m message
CommitCommit(t) ==
  /\ program = "basic" /\ pc[t] = "commit"
  /\ cmds' = [ cmds EXCEPT ![t] = Append(@, "commit") ]
  /\ \E r \in RunResults :
       CASE r = "ok" -> pc' = [ pc EXCEPT ![t] = "push" ] /\ UNCHANGED << outcome, git_status >>
         [] r = "failed" -> Leave(t, "commit_failed")
         [] r = "raised" -> Leave(t, "exception")
  /\ UNCHANGED << session, now, timer, pending_changes, processing_changes,
                  last_commit_time, commit_lock, verdict, startLen,
                  busyAtExpiry, history >>

\* lines 212-225: git push, always attempted
CommitPush(t) ==
  /\ program = "basic" /\ pc[t] = "push"
  /\ cmds' = [ cmds EXCEPT ![t] = Append(@, "push") ]
  /\ \E r \in RunResults :
       CASE r = "ok" -> Leave(t, "committed")
         [] r = "failed" -> Leave(t, "committed_push_failed")
         [] r = "raised" -> Leave(t, "exception_after_commit")
  /\ UNCHANGED << session, now, timer, pending_changes, processing_changes,
                  last_commit_time, commit_lock, verdict, startLen,
                  busyAtExpiry, history >>

\* the end of the `with self.commit_lock:` block
CommitRelease(t) ==
  /\ program = "basic" /\ pc[t] = "finally"
  /\ commit_lock' = 0
  /\ lastFlushOutcome' = FlushEnd(outcome[t])
  /\ Return(t, "done")
  /\ UNCHANGED << session, now, timer, pending_changes, processing_changes,
                  last_commit_time, bursts >>

\* ------------------------------------------------------------------ time
\* one second passes; an expired timer fires before the clock moves on
Tick ==
  /\ now < MaxTime
  /\ \A t \in Threads : timer[t].st = "armed" => timer[t].deadline > now
  /\ now' = now + 1
  /\ UNCHANGED << session, timer, pc, pending_changes, processing_changes,
                  last_commit_time, commit_lock, locals, history >>

\* ------------------------------------------------- handle_conflicts
\* values of the max_retries argument; 0 stands for None
RetryArgs == 0..MaxRetryAttempts
\* seconds a git command takes
Durations == {0, 1}

scheduler == << now, timer, pc, pending_changes, processing_changes, last_commit_time,
                commit_lock, locals, history >>

\* handle_conflicts(max_retries) is called: max_retries or self.max_retry_attempts
InitResolve ==
  /\ program = "enhanced"
  /\ config = [ conflict_enabled |-> TRUE, auto_push |-> TRUE, enable_branch_check |-> TRUE ]
  /\ InitScheduler
  /\ r_pc = "check"
  /\ \E max_retries \in RetryArgs :
       r_max = IF max_retries # 0 THEN max_retries ELSE MaxRetryAttempts
  /\ r_attempt = 0
  /\ r_pull = "none"
  /\ r_result = None
  /\ r_clock = 0
  /\ r_starts = <<>>
  /\ r_hist = NoHist
  /\ InitMessageIdle
  /\ InitMonitoring
  /\ InitFilterIdle
  /\ InitStatusIdle

ResolveReturn(ok, message) ==
  /\ r_pc' = "done"
  /\ r_result' = [ ok |-> ok, message |-> message ]

\* lines 279-282: an attempt begins with check_for_conflicts
ResolveCheck ==
  /\ r_pc = "check"
  /\ r_starts' = Append(r_starts, r_clock)
  /\ \E in \in ConflictInputs, d \in Durations :
       LET has_conflicts == check_for_conflicts(in).first IN
       /\ r_clock' = r_clock + d
       /\ r_hist' = [ r_hist EXCEPT !.conflict_every_check = @ /\ has_conflicts,
                                    !.last_check = check_for_conflicts(in).reason ]
       /\ IF ~ has_conflicts
          THEN ResolveReturn(TRUE, "no_conflict_ready_to_commit")
          ELSE r_pc' = "pull" /\ UNCHANGED r_result
  /\ UNCHANGED << program, config, scheduler, messenger, stopped, filterer, parser,
                  r_max, r_attempt, r_pull >>

\* what git pull --no-edit does: exit status 0, non-zero with CONFLICT in its
\* output, non-zero without, or subprocess.run raises
PullResults == {"ok", "conflict", "failed", "raised"}

\* lines 285-295: git pull --no-edit
ResolvePull ==
  /\ r_pc = "pull"
  /\ \E r \in PullResults, d \in Durations :
       /\ r_clock' = r_clock + d
       /\ r_pull' = r
       /\ r_hist' = [ r_hist EXCEPT !.pull_failed_every_time = @ /\ r # "ok",
                                    !.textual_conflict = @ \/ r = "conflict" ]
       /\ CASE r = "ok" -> ResolveReturn(TRUE, "merged")
            [] r = "conflict" -> r_pc' = "add" /\ UNCHANGED r_result
            [] r \in {"failed", "raised"} -> r_pc' = "retry" /\ UNCHANGED r_result
  /\ UNCHANGED << program, config, scheduler, messenger, stopped, filterer, parser,
                  r_max, r_attempt, r_starts >>

\* lines 296-303: git add . after a pull that reported a conflict
ResolveAdd ==
  /\ r_pc = "add"
  /\ \E r \in RunResults, d \in Durations :
       /\ r_clock' = r_clock + d
       /\ r_pc' = IF r = "ok" THEN "commit" ELSE "retry"
       /\ r_pull' = IF r = "raised" THEN "raised" ELSE r_pull
  /\ UNCHANGED << program, config, scheduler, messenger, stopped, filterer, parser,
                  r_max, r_attempt, r_result, r_starts, r_hist >>

\* lines 304-312: git commit --no-edit creates the merge commit
ResolveCommit ==
  /\ r_pc = "commit"
  /\ \E r \in RunResults, d \in Durations :
       /\ r_clock' = r_clock + d
       /\ r_pull' = IF r = "raised" THEN "raised" ELSE r_pull
       /\ IF r = "ok"
          THEN /\ r_hist' = [ r_hist EXCEPT !.merge_commit = TRUE ]
               /\ ResolveReturn(TRUE, "auto_resolved")
          ELSE /\ r_pc' = "retry"
               /\ UNCHANGED << r_result, r_hist >>
  /\ UNCHANGED << program, config, scheduler, messenger, stopped, filterer, parser,
                  r_max, r_attempt, r_starts >>

\* lines 314-325: the attempt failed or raised: sleep retry_delay and go round
\* again, or give up on the last attempt
ResolveRetry ==
  /\ r_pc = "retry"
  /\ IF r_attempt < r_max - 1
     THEN /\ r_clock' = r_clock + RetryDelay
          /\ r_attempt' = r_attempt + 1
          /\ r_pull' = "none"
          /\ r_pc' = "check"
          /\ UNCHANGED r_result
     ELSE /\ ResolveReturn(FALSE, IF r_pull = "raised" THEN "exception" ELSE "resolve_manually")
          /\ UNCHANGED << r_clock, r_attempt, r_pull >>
  /\ UNCHANGED << program, config, scheduler, messenger, stopped, filterer, parser,
                  r_max, r_starts, r_hist >>

NextResolve ==
  \/ ResolveCheck
  \/ ResolvePull
  \/ ResolveAdd
  \/ ResolveCommit
  \/ ResolveRetry

SpecResolve == InitResolve /\ [][NextResolve]_vars

Next ==
  \/ OnAnyEvent
  \/ BasicOnAnyEvent
  \/ Tick
  \/ \E t \in Threads :
       \/ ProcessChanges(t)
       \/ ProcessStatus(t)
       \/ ProcessConflictCheck(t)
       \/ ProcessAdd(t)
       \/ ProcessCommit(t)
       \/ ProcessPush(t)
       \/ ProcessClear(t)
       \/ ProcessFinally(t)
       \/ CommitChanges(t)
       \/ CommitChangesUnblock(t)
       \/ CommitStatus(t)
       \/ CommitAdd(t)
       \/ CommitCommit(t)
       \/ CommitPush(t)
       \/ CommitRelease(t)

Spec == Init /\ [][Next]_vars

\* ------------------------------------------------- stopping the session
\* start_monitoring on KeyboardInterrupt: observer.stop() and observer.join().
\* The observer delivers no further event; nothing is done about the timers
\* already started or about a flush in progress, whose threads go on running
StopMonitoring ==
  /\ ~ stopped
  /\ stopped' = TRUE
  /\ UNCHANGED << program, config, resolver, messenger, filterer, parser, scheduler >>

NextStop ==
  \/ Next
  \/ StopMonitoring

SpecStop == Init /\ [][NextStop]_vars

\* ------------------------------------------------- the commit message
\* A message is the sequence of its code points, so that len() and slicing
\* count what Python counts; a code point outside ASCII is written by its
\* number ("U+65B0").

\* calls of the message generator in one run
MaxCalls == 2
\* seconds the clock of a run advances
MaxClock == 1

DigitChars == << "0", "1", "2", "3", "4", "5", "6", "7", "8", "9" >>

\* str(n) of a non-negative integer, as in f"{files_count}"
RECURSIVE Str(_)
Str(n) == IF n < 10 THEN << DigitChars[n + 1] >>
          ELSE Str(n \div 10) \o << DigitChars[(n % 10) + 1] >>

\* datetime.now().strftime("%Y-%m-%d %H:%M:%S") at second `clock` of the run
Timestamp(clock) ==
  << "2", "0", "2", "4", "-", "0", "1", "-", "0", "1", " ", "0", "0", ":", "0", "0", ":" >>
    \o << DigitChars[(clock \div 10) + 1], DigitChars[(clock % 10) + 1] >>

UpperLetters == << "A", "B", "C", "D", "E", "F", "G", "H", "I", "J", "K", "L", "M", "N", "O", "P", "Q", "R", "S", "T", "U", "V", "W", "X", "Y", "Z" >>
LowerLetters == << "a", "b", "c", "d", "e", "f", "g", "h", "i", "j", "k", "l", "m", "n", "o", "p", "q", "r", "s", "t", "u", "v", "w", "x", "y", "z" >>

\* str.lower()
Lower(s) ==
  [ i \in 1..Len(s) |->
      IF \E k \in 1..26 : UpperLetters[k] = s[i]
      THEN LowerLetters[CHOOSE k \in 1..26 : UpperLetters[k] = s[i]]
      ELSE s[i] ]

\* str.endswith, str.startswith, `sub in s`
EndsWith(s, suffix) ==
  Len(suffix) <= Len(s) /\ SubSeq(s, Len(s) - Len(suffix) + 1, Len(s)) = suffix
StartsWith(s, prefix) ==
  Len(prefix) <= Len(s) /\ SubSeq(s, 1, Len(prefix)) = prefix
Contains(s, sub) ==
  \E i \in 0..(Len(s) - Len(sub)) : SubSeq(s, i + 1, i + Len(sub)) = sub

\* Path(file_path).name: what follows the last "/"
RECURSIVE PathName(_)
PathName(s) ==
  IF \E i \in 1..Len(s) : s[i] = "/"
  THEN PathName(SubSeq(s, (CHOOSE i \in 1..Len(s) : s[i] = "/") + 1, Len(s)))
  ELSE s

\* s[:k] of Python: a negative k counts from the end
SliceTo(s, k) ==
  IF k >= 0 THEN SubSeq(s, 1, IF k < Len(s) THEN k ELSE Len(s))
  ELSE SubSeq(s, 1, IF Len(s) + k > 0 THEN Len(s) + k ELSE 0)

\* ', '.join(files)
RECURSIVE Join(_)
Join(files) ==
  IF files = <<>> THEN <<>>
  ELSE IF Len(files) = 1 THEN files[1]
  ELSE files[1] \o << ",", " " >> \o Join(Tail(files))

\* the extension lists of _categorize_files
CodeExts ==
  { << ".", "p", "y" >>,
    << ".", "j", "s" >>,
    << ".", "t", "s" >>,
    << ".", "j", "s", "x" >>,
    << ".", "t", "s", "x" >>,
    << ".", "g", "o" >>,
    << ".", "r", "s" >>,
    << ".", "j", "a", "v", "a" >>,
    << ".", "c", "p", "p" >>,
    << ".", "c" >>,
    << ".", "h" >> }
ConfigExts ==
  { << ".", "j", "s", "o", "n" >>,
    << ".", "y", "m", "l" >>,
    << ".", "y", "a", "m", "l" >>,
    << ".", "t", "o", "m", "l" >>,
    << ".", "i", "n", "i" >>,
    << ".", "c", "f", "g" >> }
DocsExts ==
  { << ".", "m", "d" >>,
    << ".", "t", "x", "t" >>,
    << ".", "r", "s", "t" >>,
    << ".", "d", "o", "c" >>,
    << ".", "d", "o", "c", "x" >> }
StyleExts ==
  { << ".", "c", "s", "s" >>,
    << ".", "s", "c", "s", "s" >>,
    << ".", "l", "e", "s", "s" >>,
    << ".", "s", "a", "s", "s" >> }

\* the if / elif chain of _categorize_files for one file
Category(file_path) ==
  LET file_lower == Lower(file_path)
      file_name == Lower(PathName(file_path))
  IN IF \E ext \in CodeExts : EndsWith(file_lower, ext) THEN "code"
     ELSE IF \E ext \in ConfigExts : EndsWith(file_lower, ext) THEN "config"
     ELSE IF \E ext \in DocsExts : EndsWith(file_lower, ext) THEN "docs"
     ELSE IF \E ext \in StyleExts : EndsWith(file_lower, ext) THEN "style"
     ELSE IF \/ StartsWith(file_name, << "t", "e", "s", "t", "_" >>)
             \/ EndsWith(file_name, << "_", "t", "e", "s", "t", ".", "p", "y" >>)
             \/ Contains(file_lower, << "t", "e", "s", "t" >>)
          THEN "test"
     ELSE "other"

\* the keys of the dict `categories`, in insertion order
CategoryOrder == << "code", "config", "docs", "style", "test", "other" >>

\* categories[k] after the loop
CategoryCount(files, k) == Cardinality({ i \in 1..Len(files) : Category(files[i]) = k })

\* the keys of the dict _categorize_files returns: those with a count above 0,
\* in insertion order
categorize_files(files) ==
  SelectSeq(CategoryOrder, LAMBDA k : CategoryCount(files, k) > 0)

\* a generator that takes the last of the keys with the largest count
MainCategoryLastOfTies(files) ==
  LET keys == categorize_files(files)
      i == CHOOSE i \in 1..Len(keys) :
             /\ \A j \in 1..Len(keys) :
                  CategoryCount(files, keys[j]) <= CategoryCount(files, keys[i])
             /\ \A j \in (i + 1)..Len(keys) :
                  CategoryCount(files, keys[j]) < CategoryCount(files, keys[i])
  IN keys[i]

\* max(file_categories.keys(), key=...): the first key with the largest count
MainCategory(files) ==
  LET keys == categorize_files(files)
      i == CHOOSE i \in 1..Len(keys) :
             /\ \A j \in 1..Len(keys) :
                  CategoryCount(files, keys[j]) <= CategoryCount(files, keys[i])
             /\ \A j \in 1..(i - 1) :
                  CategoryCount(files, keys[j]) < CategoryCount(files, keys[i])
  IN keys[i]

\* category_names
category_names(k) ==
  CASE k = "code" -> << "U+4EE3", "U+7801" >>
    [] k = "config" -> << "U+914D", "U+7F6E" >>
    [] k = "docs" -> << "U+6587", "U+6863" >>
    [] k = "style" -> << "U+6837", "U+5F0F" >>
    [] k = "test" -> << "U+6D4B", "U+8BD5" >>
    [] k = "other" -> << "U+5176", "U+4ED6" >>

\* type_prefixes.get(change_type, default)
type_prefixes(change_type) ==
  CASE change_type = "added" -> << "U+2728", " ", "U+65B0", "U+589E" >>
    [] change_type = "modified" -> << "U+1F4DD", " ", "U+4FEE", "U+6539" >>
    [] change_type = "deleted" -> << "U+1F5D1", "U+FE0F", " ", "U+5220", "U+9664" >>
    [] change_type = "renamed" -> << "U+1F4E6", " ", "U+91CD", "U+547D", "U+540D" >>
    [] change_type = "mixed" -> << "U+1F504", " ", "U+6DF7", "U+5408", "U+53D8", "U+66F4" >>
    [] OTHER -> << "U+1F504", " ", "U+53D8", "U+66F4" >>

\* file_desc: f"1 个文件" or f"{files_count} 个文件"
file_desc(files_count) ==
  IF files_count = 1 THEN << "1", " ", "U+4E2A", "U+6587", "U+4EF6" >>
  ELSE Str(files_count) \o << " ", "U+4E2A", "U+6587", "U+4EF6" >>

\* category_desc: empty when no file was categorised
category_desc(files) ==
  IF categorize_files(files) # <<>>
  THEN << " ", "[" >> \o category_names(MainCategory(files)) \o << "]" >>
  ELSE <<>>

\* a generator that cuts the list of four files like a longer one
FileListingCutAtFour(files) ==
  IF Len(files) <= 3 THEN << ":", " " >> \o Join(files)
  ELSE << ":", " " >> \o Join(SubSeq(files, 1, 3)) \o << " ", "U+7B49" >>

\* lines 145-151: the files shown
FileListing(files) ==
  IF Len(files) <= 3 THEN << ":", " " >> \o Join(files)
  ELSE IF Len(files) = 4 THEN << ":", " " >> \o Join(files)
  ELSE << ":", " " >> \o Join(SubSeq(files, 1, 3)) \o << " ", "U+7B49" >>

\* a generator that appends the timestamp whatever the setting
TimestampPartAlways(cfg, timestamp) ==
  << " ", "[" >> \o timestamp \o << "]" >>

\* lines 153-155: the timestamp, when include_timestamp is set
TimestampPart(cfg, timestamp) ==
  IF cfg.include_timestamp THEN << " ", "[" >> \o timestamp \o << "]" >> ELSE <<>>

\* lines 105-157: ''.join(message_parts)
AssembleMessage(change_type, files, cfg, timestamp) ==
  type_prefixes(change_type) \o (file_desc(Len(files)) \o category_desc(files))
    \o FileListing(files) \o TimestampPart(cfg, timestamp)

\* a generator that also cuts a message of exactly max_length
TruncateAtLimit(commit_message, max_length) ==
  IF Len(commit_message) >= max_length
  THEN SliceTo(commit_message, max_length - 3) \o << ".", ".", "." >>
  ELSE commit_message

\* lines 159-162: the length limit
Truncate(commit_message, max_length) ==
  IF Len(commit_message) > max_length
  THEN SliceTo(commit_message, max_length - 3) \o << ".", ".", "." >>
  ELSE commit_message

generate_commit_message(change_type, files, cfg, timestamp) ==
  Truncate(AssembleMessage(change_type, files, cfg, timestamp), cfg.max_message_length)

\* auto_commit.py: commit_message_template.format(...) with the default
\* template, which shows the timestamp and the number of files
BasicAssembleMessage(changed_files, timestamp) ==
  << "U+81EA", "U+52A8", "U+63D0", "U+4EA4", " " >> \o timestamp \o << " ", "-", " " >>
    \o Str(Len(changed_files)) \o << " ", "U+4E2A", "U+6587", "U+4EF6" >>

\* auto_commit.py lines 181-183: the length limit of the basic handler
BasicTruncate(commit_message, max_length) ==
  IF Len(commit_message) > max_length
  THEN SliceTo(commit_message, max_length) \o << ".", ".", "." >>
  ELSE commit_message

\* file names given to the generator
F_a_py == << "a", ".", "p", "y" >>
F_b_js == << "b", ".", "j", "s" >>
F_c_md == << "c", ".", "m", "d" >>
F_d_css == << "d", ".", "c", "s", "s" >>
F_e_yml == << "e", ".", "y", "m", "l" >>
F_README == << "d", "o", "c", "s", "/", "R", "E", "A", "D", "M", "E", ".", "M", "D" >>
F_tests_bin == << "t", "e", "s", "t", "s", ".", "b", "i", "n" >>

\* file lists: empty, one file, two categories level, three, four and five
\* files, and names that need lower-casing or fall to the test category
FileLists ==
  { <<>>,
    << F_a_py >>,
    << F_c_md, F_a_py >>,
    << F_a_py, F_b_js, F_c_md >>,
    << F_a_py, F_b_js, F_c_md, F_e_yml >>,
    << F_a_py, F_b_js, F_c_md, F_e_yml, F_d_css >>,
    << F_README, F_tests_bin >> }

\* the change types process_changes passes, and one type_prefixes does not know
ChangeTypes == {"added", "modified", "deleted", "renamed", "mixed", "copied"}

\* values of max_message_length / max_commit_message_length: below the length
\* of the ellipsis, the length of a short message, the default
MaxLengths == {2, 20, 100}

\* the arguments and settings of the calls of one run
MessageInputs ==
  [ change_type : ChangeTypes, files : FileLists,
    include_timestamp : BOOLEAN, max_message_length : MaxLengths ]

\* the basic handler has no change type and always shows the timestamp
BasicMessageInputs ==
  [ change_type : {"modified"}, files : FileLists,
    include_timestamp : {TRUE}, max_message_length : MaxLengths ]

InitMessage ==
  /\ program \in {"enhanced", "basic"}
  /\ config = [ conflict_enabled |-> TRUE, auto_push |-> TRUE, enable_branch_check |-> TRUE ]
  /\ InitScheduler
  /\ InitResolverIdle
  /\ msg_input \in (IF program = "enhanced" THEN MessageInputs ELSE BasicMessageInputs)
  /\ msg_clock = 0
  /\ msg_calls = <<>>
  /\ InitMonitoring
  /\ InitFilterIdle
  /\ InitStatusIdle

\* what a call leaves behind: when it was made, the message before the length
\* limit, and the message returned
Called(assembled, message) ==
  msg_calls' = Append(msg_calls,
                 [ at |-> msg_clock, assembled |-> assembled, message |-> message ])

\* IntelligentCommitGenerator.generate_commit_message(change_type, files)
GenerateCommitMessage ==
  /\ program = "enhanced" /\ Len(msg_calls) < MaxCalls
  /\ Called(AssembleMessage(msg_input.change_type, msg_input.files, msg_input,
                            Timestamp(msg_clock)),
            generate_commit_message(msg_input.change_type, msg_input.files, msg_input,
                                    Timestamp(msg_clock)))
  /\ UNCHANGED << program, config, scheduler, resolver, stopped, filterer, parser,
                  msg_input, msg_clock >>

\* auto_commit.py lines 167-183: the message of the basic handler
BasicCommitMessage ==
  /\ program = "basic" /\ Len(msg_calls) < MaxCalls
  /\ msg_input.files # <<>>
  /\ LET assembled == BasicAssembleMessage(msg_input.files, Timestamp(msg_clock)) IN
     Called(assembled, BasicTruncate(assembled, msg_input.max_message_length))
  /\ UNCHANGED << program, config, scheduler, resolver, stopped, filterer, parser,
                  msg_input, msg_clock >>

\* a second passes between two calls
MessageTick ==
  /\ msg_clock < MaxClock
  /\ msg_clock' = msg_clock + 1
  /\ UNCHANGED << program, config, scheduler, resolver, stopped, filterer, parser,
                  msg_input, msg_calls >>

NextMessage ==
  \/ GenerateCommitMessage
  \/ BasicCommitMessage
  \/ MessageTick

SpecMessage == InitMessage /\ [][NextMessage]_vars

\* ------------------------------------------------- the file filter alone
\* directories a reported path passes through
MaxDepth == 2

GitDir == << ".", "g", "i", "t" >>
PycacheDir == << "_", "_", "p", "y", "c", "a", "c", "h", "e", "_", "_" >>
\* directory names of the paths the filter is asked about
FilterDirs == { GitDir, PycacheDir, << "s", "r", "c" >>, << "o", "b", "j", "e", "c", "t", "s" >> }
\* file names of the paths the filter is asked about
FilterNames ==
  { << "m", "a", "i", "n", ".", "p", "y" >>, << "m", "o", "d", "u", "l", "e", ".", "o" >>,
    << "c", "o", "n", "f", "i", "g" >>, << "t", ".", "p", "y", "c" >> }

\* the chains of at most n directories
RECURSIVE DirChains(_)
DirChains(n) ==
  IF n = 0 THEN { <<>> }
  ELSE DirChains(n - 1) \cup { Append(c, d) : c \in DirChains(n - 1), d \in FilterDirs }

\* event.src_path, relative to the watched directory
FilterPaths == { Append(c, f) : c \in DirChains(MaxDepth), f \in FilterNames }

\* include lists of the basic handler: the default and an empty list
IncludeLists == { include_patterns, <<>> }

\* what should_process_file is asked: the path, whether the file exists, its
\* age in seconds (not read for a file that is gone)
FilterInputs ==
  { in \in [ path : FilterPaths, exists : BOOLEAN, age : FileAges, includes : {<<>>} ] :
      ~ in.exists => in.age = 0 }

\* what should_include_file is asked: the path, under either include list
BasicFilterInputs ==
  [ path : FilterPaths, exists : {TRUE}, age : {0}, includes : IncludeLists ]

InitFilter ==
  /\ program \in {"enhanced", "basic"}
  /\ config = [ conflict_enabled |-> TRUE, auto_push |-> TRUE, enable_branch_check |-> TRUE ]
  /\ InitScheduler
  /\ InitResolverIdle
  /\ InitMessageIdle
  /\ InitMonitoring
  /\ InitStatusIdle
  /\ flt_input \in (IF program = "enhanced" THEN FilterInputs ELSE BasicFilterInputs)
  /\ flt_result = None

\* on_any_event of the enhanced handler asks should_process_file: an accepted
\* event is recorded in pending_changes and starts a timer, another is dropped
FilterEvent ==
  /\ program = "enhanced" /\ flt_result = None
  /\ flt_result' = [ accepted |->
                       should_process_file(flt_input.path, flt_input.exists, flt_input.age) ]
  /\ UNCHANGED << program, config, scheduler, resolver, messenger, stopped, parser, flt_input >>

\* on_any_event of the basic handler asks should_include_file
BasicFilterEvent ==
  /\ program = "basic" /\ flt_result = None
  /\ flt_result' = [ accepted |->
                       IncludeFile(flt_input.path, exclude_patterns, flt_input.includes) ]
  /\ UNCHANGED << program, config, scheduler, resolver, messenger, stopped, parser, flt_input >>

NextFilter ==
  \/ FilterEvent
  \/ BasicFilterEvent

SpecFilter == InitFilter /\ [][NextFilter]_vars

\* ------------------------------------------------ the status query alone
\* lines of one status output
MaxLines == 2

\* "D  a.py"
L_Dx_a_py == <<"D"," "," ","a",".","p","y">>
\* "A  b.md"
L_A_b_md == <<"A"," "," ","b",".","m","d">>
\* " D b.md"
L_xD_b_md == <<" ","D"," ","b",".","m","d">>
\* "R  e.py -> c.py"
L_R_e_py == <<"R"," "," ","e",".","p","y"," ","-",">"," ","c",".","p","y">>
\* "C  f.py -> d.py"
L_C_f_py == <<"C"," "," ","f",".","p","y"," ","-",">"," ","d",".","p","y">>

\* lines `git status --porcelain=v1` prints
StatusLineSamples ==
  { L_M_a_py, L_xD_a_py, L_Dx_a_py, L_new_b_md, L_A_b_md, L_xD_b_md, L_R_e_py, L_C_f_py }

\* the outputs of at most n lines; git prints one line for a path
RECURSIVE OutputsUpTo(_)
OutputsUpTo(n) ==
  IF n = 0 THEN { <<>> }
  ELSE OutputsUpTo(n - 1)
         \cup { Append(p[1], p[2]) :
                  p \in { p \in OutputsUpTo(n - 1) \X StatusLineSamples :
                            /\ Len(p[1]) = n - 1
                            /\ \A i \in 1..Len(p[1]) : FilePath(p[1][i]) # FilePath(p[2]) } }

\* what the git commands of one status query return
StatusQueryInputs ==
  { [ repo_ok |-> FALSE, branch_ok |-> FALSE, branch |-> "", status_ok |-> FALSE, out |-> <<>> ],
    [ repo_ok |-> TRUE, branch_ok |-> TRUE, branch |-> "main", status_ok |-> FALSE, out |-> <<>> ] }
  \cup [ repo_ok : {TRUE}, branch_ok : {TRUE}, branch : {"main"},
         status_ok : {TRUE}, out : OutputsUpTo(MaxLines) ]

\* process_changes lines 538-544: the change type of the flush
PrimaryChangeType(changes) ==
  LET change_types == { changes[i].type : i \in 1..Len(changes) } IN
  IF Cardinality(change_types) = 1 THEN CHOOSE type \in change_types : TRUE
  ELSE "mixed"

InitStatus ==
  /\ program \in {"enhanced", "basic"}
  /\ config = [ conflict_enabled |-> TRUE, auto_push |-> TRUE, enable_branch_check |-> TRUE ]
  /\ InitScheduler
  /\ InitResolverIdle
  /\ InitMessageIdle
  /\ InitMonitoring
  /\ InitFilterIdle
  /\ gs_input \in StatusQueryInputs
  /\ gs_result = None

\* process_changes lines 528-552: the status query, its early returns, and
\* the change type and file list handed to generate_commit_message
AnalyseChanges ==
  /\ program = "enhanced" /\ gs_result = None
  /\ LET r == get_git_status(gs_input) IN
     gs_result' =
       IF r.error # "" THEN [ outcome |-> "status_error" ]
       ELSE IF ~ r.info.has_changes THEN [ outcome |-> "no_changes" ]
       ELSE [ outcome |-> "analysed",
              changes |-> r.info.changes,
              change_type |-> PrimaryChangeType(r.info.changes),
              files |-> [ i \in 1..Len(r.info.changes) |-> r.info.changes[i].file ] ]
  /\ UNCHANGED << program, config, scheduler, resolver, messenger, stopped, filterer, gs_input >>

\* auto_commit.py lines 152-172: the status query of the basic handler and
\* its early returns
BasicListChanges ==
  /\ program = "basic" /\ gs_result = None
  /\ LET r == basic_get_git_status(gs_input) IN
     gs_result' =
       IF r.error # "" THEN [ outcome |-> "status_error" ]
       ELSE IF ~ r.info.has_changes \/ Len(r.info.changed_files) = 0
         THEN [ outcome |-> "no_changes" ]
       ELSE [ outcome |-> "listed", files |-> r.info.changed_files ]
  /\ UNCHANGED << program, config, scheduler, resolver, messenger, stopped, filterer, gs_input >>

NextStatus ==
  \/ AnalyseChanges
  \/ BasicListChanges

SpecStatus == InitStatus /\ [][NextStatus]_vars

\* ================================================================ claims

\* C1: at most one flush (status query through add, commit and push) is
\* executing at any time: the number of threads inside the section never
\* exceeds 1
FlushMutualExclusion == Cardinality(InFlush) <= 1

\* C1, the case: a timer expired while a flush was executing, and its callback
\* was turned away or is waiting
ContendedFlush ==
  \E t, u \in Threads : pc[t] \in FlushSection /\ pc[u] \in {"skipped", "blocked"}

\* C2: the events of one burst give exactly one flush attempt (one callback
\* invocation), and two bursts exactly two: never more invocations than bursts,
\* and as many once no timer is pending
OneAttemptPerBurst ==
  /\ Attempts <= bursts
  /\ (\A t \in Threads : timer[t].st # "armed") => Attempts = bursts

\* C3: with conflict handling enabled, a flush whose conflict check reported a
\* conflict runs no git add, commit or push
ConflictAbortsFlush ==
  \A t \in Threads :
    (config.conflict_enabled /\ verdict[t].reason = "potential_conflict")
      => cmds[t] = <<>>

\* C4: a flush that found changes and whose conflict check reported no conflict
\* stages the changes: it does not end without having run git add
NoConflictProceeds ==
  \A t \in Threads :
    (pc[t] = "finally" /\ verdict[t].reason = "no_conflict") => cmds[t] # <<>>

\* C5: no step of a running flush removes from the pending list an event that
\* was recorded after that flush started
PendingSurvivesFlush ==
  [][ \A t \in Threads :
        pc[t] \in FlushSection =>
          \A i \in (startLen[t] + 1)..Len(pending_changes) :
            \E j \in 1..Len(pending_changes') : pending_changes'[j] = pending_changes[i]
    ]_vars

\* C6: a flush never starts while the most recent qualifying event is less than
\* the commit delay old
FlushOnlyAfterQuietPeriod ==
  [][ \A t \in Threads :
        (pc[t] # "status" /\ pc'[t] = "status") => ~ InBurst
    ]_vars

\* C7: a callback whose timer expired while a flush was executing is skipped:
\* it never gets to run the flush afterwards
BusyAttemptNotQueued ==
  \A t \in Threads : busyAtExpiry[t] => pc[t] \notin FlushSection

\* C8: the flag / lock is held only while a flush is executing: whenever a
\* flush has ended, however it ended, the flag is reset and the lock is free
FlagReleasedAfterFlush ==
  /\ processing_changes => InFlush # {}
  /\ commit_lock # 0 => pc[commit_lock] \in FlushSection

\* C8, the case: a flush ended in an exception, and a later timer expiry has
\* started a new flush
FlushAfterFailedFlush == lastFlushOutcome = "raised" /\ InFlush # {}

\* C9: with max_retries = 3, a conflict reported by every check and a pull that
\* fails every time, handle_conflicts makes exactly 3 attempts, at least
\* retry_delay apart, and then reports failure
ThreeAttemptsThenFailure ==
  (r_pc = "done" /\ r_max = 3 /\ r_hist.conflict_every_check
     /\ r_hist.pull_failed_every_time)
    => /\ Len(r_starts) = 3
       /\ ~ r_result.ok
       /\ \A i \in 1..(Len(r_starts) - 1) : r_starts[i + 1] - r_starts[i] >= RetryDelay

\* C10: when the pull reported a textual conflict, handle_conflicts does not
\* create a merge commit and return success
NoSilentResolution ==
  (r_pc = "done" /\ r_hist.textual_conflict) => ~ (r_result.ok /\ r_hist.merge_commit)

\* C11: when the fetch of a check failed, handle_conflicts does not take the
\* result for "no conflict": it does not return success with the message "no
\* conflict, ready to commit"
FetchFailureDistinguished ==
  (r_pc = "done" /\ r_hist.last_check = "fetch_failed")
    => ~ (r_result.ok /\ r_result.message = "no_conflict_ready_to_commit")

\* C12: a check that found only unpushed local commits is not a conflict:
\* handle_conflicts does not go on to git pull after it
UnpushedCommitsNotBlocking ==
  r_hist.last_check = "unpushed_commits" => r_pc # "pull"

\* C13: with the branch check enabled, a flush on a branch that is not in the
\* allow-list (an empty or unknown name included) runs no git add, commit or
\* push
BranchCheckAbortsFlush ==
  \A t \in Threads :
    (program = "basic" /\ config.enable_branch_check /\ git_status[t] # None
       /\ git_status[t].current_branch \notin allowed_branches)
      => cmds[t] = <<>>

\* C14: with rate limiting enabled, the commits made within one hour (every
\* run here lasts a few seconds) never exceed max_commits_per_hour, whatever
\* value the setting has. The commits counted are the one of the flush that
\* finished last and the one of the flush in progress, once git commit has
\* succeeded in it
CommitRateLimited ==
  program = "enhanced" =>
    \A max_commits_per_hour \in RateLimits :
      (IF lastFlushOutcome \in {"committed", "committed_raised"} THEN 1 ELSE 0)
        + Cardinality({ t \in Threads : pc[t] \in {"push", "clear"} })
          <= max_commits_per_hour

\* C16: when git commit succeeded and git push failed, the flush runs no
\* further git command (its commands are add, commit, push: no reset, no
\* revert), clears the pending changes, ends as a commit, and releases the
\* flag / lock so that later flushes can run
PushFailureKeepsCommit ==
  [][ \A t \in Threads :
        /\ outcome'[t] = "push_failed" => pc'[t] = "clear"
        /\ (outcome[t] = "push_failed" /\ pc'[t] # pc[t])
             => pending_changes' = <<>> /\ outcome'[t] = "committed_push_failed"
        /\ outcome'[t] = "committed_push_failed"
             => pc'[t] = "finally" /\ cmds'[t] = << "add", "commit", "push" >>
        /\ (outcome[t] = "committed_push_failed" /\ pc'[t] # pc[t])
             => /\ pc'[t] = "done" /\ lastFlushOutcome' = "committed"
                /\ ~ processing_changes' /\ commit_lock' = 0
    ]_vars

\* C16, the case: a flush whose commit succeeded and whose push failed is at
\* the release of the flag / lock
PushFailedFlushEnding ==
  \E t \in Threads : pc[t] = "finally" /\ outcome[t] = "committed_push_failed"

\* C18: the recorded changes hold one entry per distinct path: no two entries
\* of pending_changes name the same file
OneEntryPerPath ==
  \A i, j \in 1..Len(pending_changes) :
    pending_changes[i].file_path = pending_changes[j].file_path => i = j

\* C15: the message a call returns is never longer than the configured
\* maximum length
MessageWithinMaxLength ==
  \A i \in 1..Len(msg_calls) :
    Len(msg_calls[i].message) <= msg_input.max_message_length

FilesListedUpToFour ==
  \A i \in 1..Len(msg_calls) :
    program = "enhanced" =>
      LET files == msg_input.files
          listed == IF Len(files) <= 4 THEN Join(files)
                    ELSE Join(SubSeq(files, 1, 3)) \o << " ", "U+7B49" >>
      IN msg_calls[i].assembled =
           type_prefixes(msg_input.change_type) \o file_desc(Len(files))
             \o category_desc(files) \o << ":", " " >> \o listed
             \o TimestampPart(msg_input, Timestamp(msg_calls[i].at))

\* C19, the case: a message was generated for more than 4 files
MoreThanFourFilesListed ==
  program = "enhanced" /\ Len(msg_input.files) > 4 /\ msg_calls # <<>>

\* C20: a message that is not longer than the maximum before the length limit
\* is returned as it is
TruncationOnlyWhenNeeded ==
  \A i \in 1..Len(msg_calls) :
    Len(msg_calls[i].assembled) <= msg_input.max_message_length
      => msg_calls[i].message = msg_calls[i].assembled

\* C20, the case: a message of exactly the maximum length was generated
MessageOfMaxLength ==
  /\ program = "enhanced"
  /\ \E i \in 1..Len(msg_calls) :
       Len(msg_calls[i].assembled) = msg_input.max_message_length

\* C24: at most one debounce timer is pending at any time
OneLiveTimer ==
  Cardinality({ t \in Threads : timer[t].st = "armed" }) <= 1

\* C25: every file of the list a flush stages and commits (the files of the
\* status query) is the file of an event recorded in the pending list
CommitPlanWithinPending ==
  \A t \in Threads :
    (program = "enhanced" /\ pc[t] \in {"commit", "push", "clear"} /\ git_status[t] # None)
      => \A k \in 1..Len(git_status[t].changes) :
           \E i \in 1..Len(pending_changes) :
             PathString(pending_changes[i].file_path) = git_status[t].changes[k].file

\* C27: the git commands of a flush are a beginning of add, commit, push (so
\* each at most once, in that order); after a failed git add the flush has
\* run nothing but add, after a failed git commit nothing but add and commit
StepsInOrder ==
  \A t \in Threads :
    /\ cmds[t] \in { <<>>, << "add" >>, << "add", "commit" >>, << "add", "commit", "push" >> }
    /\ outcome[t] = "add_failed" => cmds[t] = << "add" >>
    /\ outcome[t] = "commit_failed" => cmds[t] = << "add", "commit" >>

\* C27, the case: a flush whose git add or git commit failed is ending
FlushEndingAfterFailedStep ==
  \E t \in Threads :
    pc[t] = "finally" /\ outcome[t] \in {"add_failed", "commit_failed"}

\* C28: the label shown in the message is that of a category whose file count
\* is the highest of the six, and every category before it in the order code,
\* config, docs, style, test, other has a lower count
DominantCategoryLabel ==
  \A i \in 1..Len(msg_calls) :
    (program = "enhanced" /\ msg_input.files # <<>>) =>
      \E k \in 1..Len(CategoryOrder) :
        LET files == msg_input.files
            n == CategoryCount(files, CategoryOrder[k])
            shown == type_prefixes(msg_input.change_type) \o file_desc(Len(files))
                       \o << " ", "[" >> \o category_names(CategoryOrder[k]) \o << "]", ":" >>
        IN /\ \A j \in 1..Len(CategoryOrder) : CategoryCount(files, CategoryOrder[j]) <= n
           /\ \A j \in 1..(k - 1) : CategoryCount(files, CategoryOrder[j]) < n
           /\ StartsWith(msg_calls[i].assembled, shown)

\* C28, the case: a message was generated for files of which two categories
\* share the highest count
TiedCategoriesLabelled ==
  /\ program = "enhanced" /\ msg_calls # <<>>
  /\ \E a, b \in 1..Len(CategoryOrder) :
       /\ a # b
       /\ CategoryCount(msg_input.files, CategoryOrder[a])
            = CategoryCount(msg_input.files, CategoryOrder[b])
       /\ \A j \in 1..Len(CategoryOrder) :
            CategoryCount(msg_input.files, CategoryOrder[j])
              <= CategoryCount(msg_input.files, CategoryOrder[a])

\* C21: the filter rejects every path that has a directory named .git or
\* __pycache__ above it, and the basic filter with its default include list
\* accepts src/main.py
IgnoredDirectoriesRejected ==
  flt_result # None =>
    /\ (\E i \in 1..(Len(flt_input.path) - 1) : flt_input.path[i] \in {GitDir, PycacheDir})
         => ~ flt_result.accepted
    /\ (program = "basic" /\ flt_input.includes # <<>>
          /\ flt_input.path = << << "s", "r", "c" >>, << "m", "a", "i", "n", ".", "p", "y" >> >>)
         => flt_result.accepted

\* C22: should_include_file accepts a path exactly when it matches no exclude
\* pattern and the include list is empty or one of its patterns matches
IncludeExactlyWhenNotExcluded ==
  (program = "basic" /\ flt_result # None) =>
    flt_result.accepted =
      (/\ ~ MatchesAny(flt_input.path, exclude_patterns)
       /\ (flt_input.includes = <<>> \/ MatchesAny(flt_input.path, flt_input.includes)))

\* C22, the case: the filter has answered for a path that matches both an
\* exclude and an include pattern
ExcludedAndIncludedPathFiltered ==
  /\ program = "basic" /\ flt_result # None
  /\ MatchesAny(flt_input.path, exclude_patterns)
  /\ flt_input.includes # <<>> /\ MatchesAny(flt_input.path, flt_input.includes)

\* C29: an event on an existing file that matches no ignore pattern passes
\* the filter of on_any_event, and so is recorded and starts a timer, whatever
\* the age of the file at delivery
FreshWriteRecorded ==
  (program = "enhanced" /\ flt_result # None /\ flt_input.exists
     /\ ~ MatchesAny(flt_input.path, ignore_patterns))
    => flt_result.accepted

\* C26: the change type handed to generate_commit_message is one of added,
\* modified, deleted, renamed, mixed: mixed exactly when the changes are of
\* more than one kind, and otherwise the kind of every change
ChangeTypeOfFiveKinds ==
  (gs_result # None /\ gs_result.outcome = "analysed") =>
    LET kinds == { gs_result.changes[i].type : i \in 1..Len(gs_result.changes) } IN
    /\ gs_result.change_type \in {"added", "modified", "deleted", "renamed", "mixed"}
    /\ gs_result.change_type = "mixed" <=> Cardinality(kinds) > 1
    /\ gs_result.change_type # "mixed" => kinds = { gs_result.change_type }

\* C30: every status line with D in its first or its second column is
\* classified as deleted, and a flush whose status lines are all deletions
\* gets the change type deleted
DeletionsClassifiedDeleted ==
  (gs_result # None /\ gs_result.outcome = "analysed") =>
    LET out == gs_input.out
        IsDeletion(line) == line[1] = "D" \/ line[2] = "D"
    IN /\ \A i \in 1..Len(out) : IsDeletion(out[i]) => gs_result.changes[i].type = "deleted"
       /\ (\A i \in 1..Len(out) : IsDeletion(out[i])) => gs_result.change_type = "deleted"

\* C23: once the session has been stopped no flush starts: no callback of a
\* timer goes on to the status query after observer.stop()
NoFlushAfterStop ==
  [][ \A t \in Threads :
        stopped => ~ (pc[t] # "status" /\ pc'[t] = "status")
    ]_vars

====
